---- MODULE Spec2Model ----
(***************************************************************************)
(* The device directory of rileyhernandez/mise: the Firestore-backed       *)
(* handlers of api_handler.py and address_api_handler.py, each of which    *)
(* runs its reads and writes inside one function decorated with            *)
(* firestore.transactional.                                                *)
(*                                                                         *)
(* State: the two collections ("devices", "config"), one in-flight         *)
(* transaction per caller, the response sent by the last step, history     *)
(* variables (the configuration each Configuration record was last given   *)
(* through the API, and the log of committed creations), and the value a   *)
(* codec (path_to_device, the duration encodings) is working on.           *)
(*                                                                         *)
(* api_handler.py works with a Device that has a model and a               *)
(* serial_number; the menu.py at hand is the number-based variant, whose   *)
(* path_to_device wants an integer.  The handlers are modelled with the    *)
(* two checks of path_to_device they share with it and the serial segment  *)
(* taken as it is; path_to_device itself is modelled as menu.py has it.    *)
(*                                                                         *)
(* The store is the external collaborator the handlers are written         *)
(* against: a transaction reads at the snapshot taken when it begins,      *)
(* buffers its writes, and commits them all or none; a commit is aborted   *)
(* when a document or a query the transaction read was written by a        *)
(* transaction that committed after it began.  The transactional wrapper   *)
(* runs the body again after an aborted commit, MAX_ATTEMPTS times at      *)
(* most, and then raises ValueError.                                       *)
(***************************************************************************)
EXTENDS Integers, Sequences, FiniteSets, TLC

(* ------------------------------------------------------------------ *)
(* Bounds of the model                                                  *)
(* ------------------------------------------------------------------ *)

\* calls issued in one behaviour of Spec
MaxCalls == 3

\* calls issued in one behaviour of SpecSeeded
MaxSeededCalls == 3

\* calls issued in one behaviour of SpecContend
MaxContendCalls == 7

\* calls issued in one behaviour of SpecRequests
MaxRequestCalls == 3

\* calls issued in one behaviour of SpecAbandon
MaxAbandonCalls == 3

\* calls issued in one behaviour of SpecPutPy
MaxPutPyCalls == 3

\* calls issued in one behaviour of SpecAddress
MaxAddressCalls == 4

\* the highest suffix of the serials in the directories given to the
\* probing loop
MaxProbeSuffix == 3

\* the highest suffix of the serials given to the identity codec
MaxSuffix == 2

\* the concurrent callers
Procs == {"p1", "p2"}

(* ------------------------------------------------------------------ *)
(* Program constants                                                    *)
(* ------------------------------------------------------------------ *)

\* attempts of one call of a firestore.transactional function: the default
\* max_attempts of db.transaction()
MAX_ATTEMPTS == 5

DEVICE_COLLECTION == "devices"

CONFIG_COLLECTION == "config"

\* class Model(Enum)
Model == {"IchibuV1", "IchibuV2", "LibraV0"}

(* ------------------------------------------------------------------ *)
(* Strings, as sequences of characters                                  *)
(* ------------------------------------------------------------------ *)

Digit == <<"0", "1", "2", "3", "4", "5", "6", "7", "8", "9">>

RECURSIVE IntToStr(_)
\* str(n) of a non-negative int, as an f-string formats it
IntToStr(n) ==
    IF n < 10 THEN <<Digit[n + 1]>>
    ELSE IntToStr(n \div 10) \o <<Digit[(n % 10) + 1]>>

\* the two identifiers in the other order
BaseSerialSwapped(cfg) ==
    IntToStr(cfg.load_cell_id) \o <<"-">> \o IntToStr(cfg.phidget_id)

\* serial_number = f"{new_config.phidget_id}-{new_config.load_cell_id}"
BaseSerial(cfg) ==
    IntToStr(cfg.phidget_id) \o <<"-">> \o IntToStr(cfg.load_cell_id)

\* f"{serial_number}-{index}"
Candidate(base, index) == base \o <<"-">> \o IntToStr(index)

\* the characters of the name (and value) of a member of Model
Spell(m) ==
    CASE m = "IchibuV1" -> <<"I", "c", "h", "i", "b", "u", "V", "1">>
      [] m = "IchibuV2" -> <<"I", "c", "h", "i", "b", "u", "V", "2">>
      [] m = "LibraV0" -> <<"L", "i", "b", "r", "a", "V", "0">>

RECURSIVE LStrip(_)
\* str.lstrip('/')
LStrip(str) == IF str # <<>> /\ Head(str) = "/" THEN LStrip(Tail(str)) ELSE str

RECURSIVE RStrip(_)
\* str.rstrip('/')
RStrip(str) ==
    IF str # <<>> /\ str[Len(str)] = "/"
    THEN RStrip(SubSeq(str, 1, Len(str) - 1))
    ELSE str

\* str.strip('/')
Strip(str) == RStrip(LStrip(str))

RECURSIVE Split(_)
\* str.split('/'): the segments between the slashes, empty ones included
Split(str) ==
    IF \A i \in 1..Len(str) : str[i] # "/"
    THEN <<str>>
    ELSE LET i == CHOOSE j \in 1..Len(str) :
                      str[j] = "/" /\ \A k \in 1..(j - 1) : str[k] # "/"
         IN  <<SubSeq(str, 1, i - 1)>> \o Split(SubSeq(str, i + 1, Len(str)))

\* the digits of str after an optional sign
Unsigned(str) == IF str # <<>> /\ Head(str) \in {"-", "+"} THEN Tail(str) ELSE str

\* whether int(str) accepts str: an optional sign and one digit or more
\* (the strings here hold no blank and no underscore)
IsInt(str) ==
    /\ Unsigned(str) # <<>>
    /\ \A i \in 1..Len(Unsigned(str)) : \E d \in 1..10 : Unsigned(str)[i] = Digit[d]

RECURSIVE Digits(_)
\* the value of a string of digits
Digits(str) ==
    IF str = <<>> THEN 0
    ELSE 10 * Digits(SubSeq(str, 1, Len(str) - 1))
         + (CHOOSE d \in 0..9 : Digit[d + 1] = str[Len(str)])

\* int(str) of a string int() accepts
ToInt(str) ==
    IF str # <<>> /\ Head(str) = "-" THEN 0 - Digits(Unsigned(str))
    ELSE Digits(Unsigned(str))

(* ------------------------------------------------------------------ *)
(* Record schemas                                                       *)
(* ------------------------------------------------------------------ *)

\* the fields of class Config
ConfigFields ==
    {"gain", "ingredient", "load_cell_id", "location", "offset", "phidget_id"}

\* Field(alias=...): the key of a field in a stored document
Alias(f) ==
    CASE f = "load_cell_id" -> "loadCellId"
      [] f = "phidget_id" -> "phidgetId"
      [] OTHER -> f

\* new_config.model_dump(by_alias=True)
ConfigDump(cfg) ==
    [k \in {Alias(f) : f \in ConfigFields} |->
        LET f == CHOOSE g \in ConfigFields : Alias(g) = k IN cfg[f]]

\* whether Config.model_validate(doc) accepts doc: every field is present,
\* under its alias or (populate_by_name) under its name
ConfigValid(doc) ==
    \A f \in ConfigFields : Alias(f) \in DOMAIN doc \/ f \in DOMAIN doc

\* Config.model_validate(doc) of a document it accepts; keys that are no
\* field of Config are ignored
ConfigValidate(doc) ==
    [f \in ConfigFields |->
        IF Alias(f) \in DOMAIN doc THEN doc[Alias(f)] ELSE doc[f]]

\* Device(model, serial_number)
Device(m, s) == [model |-> m, serial_number |-> s]

\* FirestoreDeviceDocument(...).model_dump(by_alias=True)
DeviceDocument(m, s, c) == [model |-> m, serialNumber |-> s, config |-> c]

\* what a parse yields: the exception raised (exc, error) or the value
ParseError(exc, error) == [exc |-> exc, error |-> error, value |-> <<>>]
Parsed(value) == [exc |-> "", error |-> "", value |-> value]

\* path.strip('/').split('/')
PathParts(path) == Split(Strip(path))

\* Model(model_str) succeeds
IsModel(model_str) == \E m \in Model : Spell(m) = model_str

\* Model(model_str)
ToModel(model_str) == CHOOSE m \in Model : Spell(m) = model_str

\* the two checks with the model looked up first
PathErrorModelFirst(path) ==
    IF ~IsModel(PathParts(path)[1]) THEN "InvalidModel"
    ELSE IF Len(PathParts(path)) # 2 THEN "InvalidPathFormat"
    ELSE ""

\* the first two checks of path_to_device, in its order: the error of the
\* ValueError raised, "" when the path passes both
PathError(path) ==
    IF Len(PathParts(path)) # 2 THEN "InvalidPathFormat"
    ELSE IF ~IsModel(PathParts(path)[1]) THEN "InvalidModel"
    ELSE ""

\* path_to_device(path) of menu.py, which returns Device(model, number)
path_to_device(path) ==
    LET number_str == PathParts(path)[2]
    IN  IF PathError(path) # ""
        THEN ParseError("ValueError", PathError(path))
        ELSE IF ~IsInt(number_str)
        THEN ParseError("ValueError", "InvalidNumber")
        ELSE Parsed([model |-> ToModel(PathParts(path)[1]),
                     number |-> ToInt(number_str)])

(* ------------------------------------------------------------------ *)
(* Durations                                                            *)
(* ------------------------------------------------------------------ *)

NANOS_PER_SECOND == 1000000000

\* the structured form kept at the resolution of a microsecond
DurationFromStructuredMicros(wire) ==
    [seconds |-> wire.secs + (wire.nanos \div NANOS_PER_SECOND),
     nanos |-> ((wire.nanos % NANOS_PER_SECOND) \div 1000) * 1000]

\* the structured wire form {secs, nanos} accepted into the internal
\* duration: seconds and a nanosecond remainder
DurationFromStructured(wire) ==
    [seconds |-> wire.secs + (wire.nanos \div NANOS_PER_SECOND),
     nanos |-> wire.nanos % NANOS_PER_SECOND]

\* the structured encoding of the internal duration for the client
DurationToClient(duration) == [secs |-> duration.seconds, nanos |-> duration.nanos]

(* ------------------------------------------------------------------ *)
(* Inputs                                                               *)
(* ------------------------------------------------------------------ *)

Cfg(g, p, l) ==
    [gain |-> g, ingredient |-> "salt", load_cell_id |-> l,
     location |-> "pantry", offset |-> 0, phidget_id |-> p]

\* the configurations callers submit: two with the same hardware
\* identifiers, one with other identifiers
Configs == {Cfg(1, 7, 1), Cfg(2, 7, 1), Cfg(1, 8, 1)}

\* the models callers create devices of
InputModels == {"IchibuV1", "IchibuV2"}

\* the identities callers ask for
InputDevices ==
    {Device(m, s) : m \in InputModels,
                    s \in {BaseSerial(Cfg(1, 7, 1)),
                           Candidate(BaseSerial(Cfg(1, 7, 1)), 0),
                           <<"9", "9">>}}

\* the addresses callers submit
Addresses == {"10.0.0.1", ""}

(* ------------------------------------------------------------------ *)
(* State                                                                *)
(* ------------------------------------------------------------------ *)

VARIABLES
    devices,    \* the "devices" collection: document id -> document
    config,     \* the "config" collection: document id -> document
    tx,         \* per caller: the call in flight and its transaction
    resp,       \* the response the last step sent, NoResp if it sent none
    ncalls,     \* calls issued so far
    expected,   \* history: config id -> the Config last committed to it
    created,    \* history: the committed creations, in commit order
    codec       \* the value a codec is given and what it made of it

vars == <<devices, config, tx, resp, ncalls, expected, created, codec>>

\* the empty function
NoDocs == [x \in {} |-> x]

\* a call: the request (path, body) and what the handler parsed from it
NoCall ==
    [op |-> "", model |-> "", serial |-> <<>>, cfg |-> NoDocs, address |-> "",
     path |-> <<>>, body |-> NoDocs]

Idle ==
    [pc |-> "idle", call |-> NoCall, attempt |-> 0, reads |-> {},
     writes |-> <<>>, value |-> NoDocs, doomed |-> FALSE]

\* no value given to a codec
NoCodec == [input |-> <<>>, stage |-> "in", result |-> <<>>]

NoResp ==
    [caller |-> "", op |-> "", status |-> "", exc |-> "", error |-> "",
     value |-> NoDocs, attempts |-> 0, call |-> NoCall]

(* ------------------------------------------------------------------ *)
(* The store: queries, reads and buffered writes                        *)
(* ------------------------------------------------------------------ *)

\* what a transaction has read: a query on "devices" by model and serial
\* ("ms"), a query on "devices" by serial ("s"), a "config" document ("cfg")
ReadQuery(m, s) == [kind |-> "ms", model |-> m, serial |-> s, id |-> 0]
ReadSerial(s) == [kind |-> "s", model |-> "", serial |-> s, id |-> 0]
ReadConfig(id) == [kind |-> "cfg", model |-> "", serial |-> <<>>, id |-> id]

\* transaction.set(ref, data) and transaction.update(ref, data)
WriteSet(coll, id, data) == [coll |-> coll, id |-> id, how |-> "set", data |-> data]
WriteUpdate(coll, id, data) == [coll |-> coll, id |-> id, how |-> "update", data |-> data]

\* .where("model" == m).where("serialNumber" == s): the ids of the matches
QueryDevice(dv, m, s) ==
    {d \in DOMAIN dv : dv[d].model = m /\ dv[d].serialNumber = s}

\* .where("serialNumber" == s): the ids of the matches
QuerySerial(dv, s) == {d \in DOMAIN dv : dv[d].serialNumber = s}

\* a document after update(ref, data): the fields of data set, the others kept
Updated(doc, data) ==
    [k \in DOMAIN doc \cup DOMAIN data |->
        IF k \in DOMAIN data THEN data[k] ELSE doc[k]]

\* set(ref, data, merge=True)
StoredMerge(coll, w) ==
    IF w.id \in DOMAIN coll THEN Updated(coll[w.id], w.data) ELSE w.data

\* the document a write leaves under its id: set replaces it whole
Stored(coll, w) ==
    IF w.how = "update" THEN Updated(coll[w.id], w.data) ELSE w.data

\* collection `name` after the writes ws, in order
RECURSIVE Apply(_, _, _)
Apply(coll, name, ws) ==
    IF ws = <<>> THEN coll
    ELSE LET w == Head(ws) IN
         Apply(IF w.coll = name
               THEN [k \in DOMAIN coll \cup {w.id} |->
                        IF k = w.id THEN Stored(coll, w) ELSE coll[k]]
               ELSE coll,
               name, Tail(ws))

\* the least positive integer outside used: a generated document id,
\* which collides with no id in use
Fresh(used) ==
    CHOOSE n \in 1..(Cardinality(used) + 1) :
        n \notin used /\ \A m \in 1..(n - 1) : m \in used

\* the ids the writes ws give to new documents of collection name
NewIds(ws, name) ==
    {ws[i].id : i \in {j \in 1..Len(ws) : ws[j].coll = name /\ ws[j].how = "set"}}

\* collection().document(): a new reference with a generated id
FreshConfigId(p) ==
    Fresh(DOMAIN config \cup {devices[d].config : d \in DOMAIN devices}
          \cup UNION {NewIds(tx[q].writes, CONFIG_COLLECTION) : q \in Procs \ {p}})

FreshDeviceId(p) ==
    Fresh(DOMAIN devices
          \cup UNION {NewIds(tx[q].writes, DEVICE_COLLECTION) : q \in Procs \ {p}})

\* whether write w, committed over devices dv, touches what read r saw:
\* a document read by key, or a document a query matched or now matches
Conflicts(r, w, dv) ==
    IF w.coll = CONFIG_COLLECTION
    THEN r.kind = "cfg" /\ r.id = w.id
    ELSE LET docs == {Stored(dv, w)} \cup (IF w.id \in DOMAIN dv THEN {dv[w.id]} ELSE {})
         IN \E doc \in docs :
                \/ r.kind = "ms" /\ doc.model = r.model /\ doc.serialNumber = r.serial
                \/ r.kind = "s" /\ doc.serialNumber = r.serial

(* ------------------------------------------------------------------ *)
(* The transaction bodies                                               *)
(* ------------------------------------------------------------------ *)

\* what one run of a body yields: an exception raised (exc, error) or a
\* value returned, with the reads made and the writes buffered
Raised(exc, error, reads) ==
    [exc |-> exc, error |-> error, value |-> NoDocs, reads |-> reads, writes |-> <<>>]

Returned(value, reads, writes) ==
    [exc |-> "", error |-> "", value |-> value, reads |-> reads, writes |-> writes]

\* the one element of a set of one
TheOne(S) == CHOOSE x \in S : TRUE

\* _get_transaction that writes a default config document where the one
\* the entry names is missing, and returns it
GetBodyRepairs(dv, cf, device) ==
    LET documents == QueryDevice(dv, device.model, device.serial_number)
        reads == {ReadQuery(device.model, device.serial_number)}
    IN  IF Cardinality(documents) > 1
        THEN Raised("FirestoreError", "MultipleDevices", reads)
        ELSE IF documents = {}
        THEN Raised("FirestoreError", "NoDocument", reads)
        ELSE LET ref == dv[TheOne(documents)].config
                 reads2 == reads \cup {ReadConfig(ref)}
             IN  IF ref \notin DOMAIN cf
                 THEN Returned(Cfg(0, 0, 0), reads2,
                          <<WriteSet(CONFIG_COLLECTION, ref, ConfigDump(Cfg(0, 0, 0)))>>)
                 ELSE IF ~ConfigValid(cf[ref])
                 THEN Raised("ValidationError", "Config", reads2)
                 ELSE Returned(ConfigValidate(cf[ref]), reads2, <<>>)

\* _get_transaction that reads the config of the first match
GetBodyFirstMatch(dv, cf, device) ==
    LET documents == QueryDevice(dv, device.model, device.serial_number)
        reads == {ReadQuery(device.model, device.serial_number)}
    IN  IF documents = {}
        THEN Raised("FirestoreError", "NoDocument", reads)
        ELSE LET first == CHOOSE d \in documents : \A e \in documents : d <= e
                 ref == dv[first].config
             IN  IF ref \notin DOMAIN cf
                 THEN Raised("FirestoreError", "ConfigNotFound", reads)
                 ELSE Returned(ConfigValidate(cf[ref]), reads \cup {ReadConfig(ref)}, <<>>)

\* _get_transaction that answers a missing config document with a default
GetBodyDefault(dv, cf, device) ==
    LET documents == QueryDevice(dv, device.model, device.serial_number)
        reads == {ReadQuery(device.model, device.serial_number)}
    IN  IF Cardinality(documents) > 1
        THEN Raised("FirestoreError", "MultipleDevices", reads)
        ELSE IF documents = {}
        THEN Raised("FirestoreError", "NoDocument", reads)
        ELSE LET ref == dv[TheOne(documents)].config
                 reads2 == reads \cup {ReadConfig(ref)}
             IN  IF ref \notin DOMAIN cf
                 THEN Returned(Cfg(0, 0, 0), reads2, <<>>)
                 ELSE IF ~ConfigValid(cf[ref])
                 THEN Raised("ValidationError", "Config", reads2)
                 ELSE Returned(ConfigValidate(cf[ref]), reads2, <<>>)

\* _get_transaction
GetBody(dv, cf, device) ==
    LET documents == QueryDevice(dv, device.model, device.serial_number)
        reads == {ReadQuery(device.model, device.serial_number)}
    IN  IF Cardinality(documents) > 1
        THEN Raised("FirestoreError", "MultipleDevices", reads)
        ELSE IF documents = {}
        THEN Raised("FirestoreError", "NoDocument", reads)
        ELSE LET ref == dv[TheOne(documents)].config
                 reads2 == reads \cup {ReadConfig(ref)}
             IN  IF ref \notin DOMAIN cf
                 THEN Raised("FirestoreError", "ConfigNotFound", reads2)
                 ELSE IF ~ConfigValid(cf[ref])
                 THEN Raised("ValidationError", "Config", reads2)
                 ELSE Returned(ConfigValidate(cf[ref]), reads2, <<>>)

\* _put_transaction that merges the dump, keyed by field name, into the
\* record: set(config_doc_ref, new_config.model_dump(), merge=True)
PutBodyMergeByName(dv, cf, device, new_config) ==
    LET documents == QueryDevice(dv, device.model, device.serial_number)
        reads == {ReadQuery(device.model, device.serial_number)}
    IN  IF Cardinality(documents) > 1
        THEN Raised("FirestoreError", "MultipleDevices", reads)
        ELSE IF documents = {}
        THEN Raised("FirestoreError", "NoDocument", reads)
        ELSE LET ref == dv[TheOne(documents)].config
             IN  Returned(NoDocs, reads,
                     <<WriteSet(CONFIG_COLLECTION, ref,
                                IF ref \in DOMAIN cf
                                THEN Updated(cf[ref], new_config)
                                ELSE new_config)>>)

\* _put_transaction that writes the document of the first match
PutBodyFirstMatch(dv, cf, device, new_config) ==
    LET documents == QueryDevice(dv, device.model, device.serial_number)
        reads == {ReadQuery(device.model, device.serial_number)}
    IN  IF documents = {}
        THEN Returned(NoDocs, reads, <<>>)
        ELSE LET first == CHOOSE d \in documents : \A e \in documents : d <= e
             IN  Returned(NoDocs, reads,
                     <<WriteSet(CONFIG_COLLECTION, dv[first].config,
                                ConfigDump(new_config))>>)

\* _put_transaction
PutBody(dv, cf, device, new_config) ==
    LET documents == QueryDevice(dv, device.model, device.serial_number)
        reads == {ReadQuery(device.model, device.serial_number)}
    IN  IF Cardinality(documents) > 1
        THEN Raised("FirestoreError", "MultipleDevices", reads)
        ELSE IF documents = {}
        THEN Raised("FirestoreError", "NoDocument", reads)
        ELSE Returned(NoDocs, reads,
                 <<WriteSet(CONFIG_COLLECTION, dv[TheOne(documents)].config,
                            ConfigDump(new_config))>>)

\* the probe that takes the base serial whatever the directory holds
ProbeNone(dv, base, index) == -1

\* the probe that takes the index above the highest suffix in use
ProbeAboveHighest(dv, base, index) ==
    LET used == {k \in 0..Cardinality(DOMAIN dv) :
                    QuerySerial(dv, Candidate(base, k)) # {}}
    IN  IF used = {} THEN index
        ELSE (CHOOSE k \in used : \A j \in used : j <= k) + 1

\* the while loop of _post_transaction: the first index from `index` on
\* whose candidate serial no document has
RECURSIVE Probe(_, _, _)
Probe(dv, base, index) ==
    IF QuerySerial(dv, Candidate(base, index)) # {}
    THEN Probe(dv, base, index + 1)
    ELSE index

\* the loop started at index = 1
ChosenIndexFromOne(dv, base) ==
    IF QuerySerial(dv, base) # {} THEN Probe(dv, base, 1) ELSE -1

\* the serial _post_transaction settles on and the queries it ran:
\* index -1 stands for the base serial itself
ChosenIndex(dv, base) ==
    IF QuerySerial(dv, base) # {} THEN Probe(dv, base, 0) ELSE -1

ChosenSerial(dv, base) ==
    LET k == ChosenIndex(dv, base) IN
    IF k = -1 THEN base ELSE Candidate(base, k)

\* the probes run as stream(), outside the transaction
ProbeReadsOutside(dv, base) == {}

\* the probes, each run as stream(transaction=transaction)
ProbeReads(dv, base) ==
    {ReadSerial(base)} \cup
    {ReadSerial(Candidate(base, i)) : i \in 0..ChosenIndex(dv, base)}

\* _post_transaction whose probes also filter on the model of the request
PostBodyProbeOwnModel(dv, cf, model, new_config, cid, did) ==
    LET own == [d \in {e \in DOMAIN dv : dv[e].model = model} |-> dv[d]]
        serial_number == ChosenSerial(own, BaseSerial(new_config))
    IN  Returned(Device(model, serial_number),
                 ProbeReads(own, BaseSerial(new_config)),
                 <<WriteSet(CONFIG_COLLECTION, cid, ConfigDump(new_config)),
                   WriteSet(DEVICE_COLLECTION, did,
                            DeviceDocument(model, serial_number, cid))>>)

\* _post_transaction that keys the config document by the hardware
\* identifier: collection(CONFIG_COLLECTION).document(str(phidget_id))
PostBodyConfigKeyed(dv, cf, model, new_config, cid, did) ==
    LET serial_number == ChosenSerial(dv, BaseSerial(new_config))
    IN  Returned(Device(model, serial_number),
                 ProbeReads(dv, BaseSerial(new_config)),
                 <<WriteSet(CONFIG_COLLECTION, new_config.phidget_id,
                            ConfigDump(new_config)),
                   WriteSet(DEVICE_COLLECTION, did,
                            DeviceDocument(model, serial_number,
                                           new_config.phidget_id))>>)

\* _post_transaction that sets the device document only
PostBodyDeviceOnly(dv, cf, model, new_config, cid, did) ==
    LET serial_number == ChosenSerial(dv, BaseSerial(new_config))
    IN  Returned(Device(model, serial_number),
                 ProbeReads(dv, BaseSerial(new_config)),
                 <<WriteSet(DEVICE_COLLECTION, did,
                            DeviceDocument(model, serial_number, cid))>>)

\* _post_transaction; cid and did are the generated ids of the two new
\* documents
PostBody(dv, cf, model, new_config, cid, did) ==
    LET serial_number == ChosenSerial(dv, BaseSerial(new_config))
    IN  Returned(Device(model, serial_number),
                 ProbeReads(dv, BaseSerial(new_config)),
                 <<WriteSet(CONFIG_COLLECTION, cid, ConfigDump(new_config)),
                   WriteSet(DEVICE_COLLECTION, did,
                            DeviceDocument(model, serial_number, cid))>>)

\* the documents a query with .limit(1) may return: any one of the matches
\* (generated ids order them), or none
Limit1(documents) == IF documents = {} THEN {{}} ELSE {{d} : d \in documents}

\* _get_address_transaction that returns the address field whenever the
\* document has one
GetAddressBodyAnyValue(dv, device, documents) ==
    LET reads == {ReadQuery(device.model, device.serial_number)}
    IN  IF Cardinality(documents) > 1
        THEN Raised("FirestoreError", "MultipleDevices", reads)
        ELSE IF documents = {}
        THEN Raised("FirestoreError", "NoDocument", reads)
        ELSE LET document_snapshot == dv[TheOne(documents)]
             IN  IF "address" \in DOMAIN document_snapshot
                 THEN Returned([address |-> document_snapshot.address], reads, <<>>)
                 ELSE Raised("FirestoreError", "NoAddress", reads)

\* _get_address_transaction, given the documents its query returned; the
\* address is returned as get_address sends it, {"address": address}
GetAddressBody(dv, device, documents) ==
    LET reads == {ReadQuery(device.model, device.serial_number)}
    IN  IF Cardinality(documents) > 1
        THEN Raised("FirestoreError", "MultipleDevices", reads)
        ELSE IF documents = {}
        THEN Raised("FirestoreError", "NoDocument", reads)
        ELSE LET document_snapshot == dv[TheOne(documents)]
             IN  IF "address" \in DOMAIN document_snapshot
                    /\ document_snapshot.address # ""
                 THEN Returned([address |-> document_snapshot.address], reads, <<>>)
                 ELSE Raised("FirestoreError", "NoAddress", reads)

\* _put_address_transaction that creates the document when none matches
PutAddressBodyUpsert(dv, device, new_address, documents) ==
    LET reads == {ReadQuery(device.model, device.serial_number)}
    IN  IF Cardinality(documents) > 1
        THEN Raised("FirestoreError", "MultipleDevices", reads)
        ELSE IF documents = {}
        THEN Returned(NoDocs, reads,
                 <<WriteSet(DEVICE_COLLECTION, Fresh(DOMAIN dv),
                            Updated(DeviceDocument(device.model, device.serial_number, 0),
                                    [address |-> new_address]))>>)
        ELSE Returned(NoDocs, reads,
                 <<WriteUpdate(DEVICE_COLLECTION, TheOne(documents),
                               [address |-> new_address])>>)

\* _put_address_transaction that also keeps the address in the config
\* document of the device
PutAddressBodyIntoConfig(dv, device, new_address, documents) ==
    LET reads == {ReadQuery(device.model, device.serial_number)}
    IN  IF Cardinality(documents) > 1
        THEN Raised("FirestoreError", "MultipleDevices", reads)
        ELSE IF documents = {}
        THEN Raised("FirestoreError", "NoDocument", reads)
        ELSE Returned(NoDocs, reads,
                 <<WriteUpdate(DEVICE_COLLECTION, TheOne(documents),
                               [address |-> new_address]),
                   WriteUpdate(CONFIG_COLLECTION, dv[TheOne(documents)].config,
                               [address |-> new_address])>>)

\* _put_address_transaction that also counts the updates of the document
PutAddressBodyVersioned(dv, device, new_address, documents) ==
    LET reads == {ReadQuery(device.model, device.serial_number)}
    IN  IF Cardinality(documents) > 1
        THEN Raised("FirestoreError", "MultipleDevices", reads)
        ELSE IF documents = {}
        THEN Raised("FirestoreError", "NoDocument", reads)
        ELSE LET doc == dv[TheOne(documents)]
                 version == IF "version" \in DOMAIN doc THEN doc.version ELSE 0
             IN  Returned(NoDocs, reads,
                     <<WriteUpdate(DEVICE_COLLECTION, TheOne(documents),
                                   [address |-> new_address, version |-> version + 1])>>)

\* _put_address_transaction, given the documents its query returned
PutAddressBody(dv, device, new_address, documents) ==
    LET reads == {ReadQuery(device.model, device.serial_number)}
    IN  IF Cardinality(documents) > 1
        THEN Raised("FirestoreError", "MultipleDevices", reads)
        ELSE IF documents = {}
        THEN Raised("FirestoreError", "NoDocument", reads)
        ELSE Returned(NoDocs, reads,
                 <<WriteUpdate(DEVICE_COLLECTION, TheOne(documents),
                               [address |-> new_address])>>)

\* the outcomes of running the body of call c for caller p on the store
BodyResults(p, c) ==
    LET device == Device(c.model, c.serial)
        matches == Limit1(QueryDevice(devices, c.model, c.serial))
    IN  CASE c.op = "get" -> {GetBody(devices, config, device)}
          [] c.op = "put" -> {PutBody(devices, config, device, c.cfg)}
          [] c.op = "post" ->
                {PostBody(devices, config, c.model, c.cfg,
                          FreshConfigId(p), FreshDeviceId(p))}
          [] c.op = "get_address" ->
                {GetAddressBody(devices, device, ds) : ds \in matches}
          [] c.op = "put_address" ->
                {PutAddressBody(devices, device, c.address, ds) : ds \in matches}

(* ------------------------------------------------------------------ *)
(* The handlers: exceptions to responses                                *)
(* ------------------------------------------------------------------ *)

\* isinstance(exc, cls) for the exception classes the handlers name;
\* pydantic's ValidationError is a ValueError
IsA(exc, cls) ==
    \/ exc = cls
    \/ exc = "ValidationError" /\ cls = "ValueError"
    \/ cls = "Exception"

\* the except clauses of the handler of op, in order: the status of the
\* response to exception exc
ExceptStatus(op, exc) ==
    IF op = "post"
    THEN IF IsA(exc, "ValidationError") \/ IsA(exc, "DeserializationError")
         THEN "BAD_REQUEST"
         ELSE IF IsA(exc, "KeyError") THEN "BAD_REQUEST"
         ELSE "INTERNAL_SERVER_ERROR"
    ELSE IF IsA(exc, "ValueError") \/ IsA(exc, "ValidationError")
            \/ IsA(exc, "DeserializationError")
         THEN "BAD_REQUEST"
         ELSE IF IsA(exc, "FirestoreError") THEN "NOT_FOUND"
         ELSE "INTERNAL_SERVER_ERROR"

\* the status of the response of a call that returned
SuccessStatus(op) == IF op = "post" THEN "CREATED" ELSE "OK"

ErrorResponse(p, c, exc, error, n) ==
    [caller |-> p, op |-> c.op, status |-> ExceptStatus(c.op, exc), exc |-> exc,
     error |-> error, value |-> NoDocs, attempts |-> n, call |-> c]

SuccessResponse(p, c, value, n) ==
    [caller |-> p, op |-> c.op, status |-> SuccessStatus(c.op), exc |-> "", error |-> "",
     value |-> value, attempts |-> n, call |-> c]

(* ------------------------------------------------------------------ *)
(* The transactional wrapper                                            *)
(* ------------------------------------------------------------------ *)

\* attempt n of call c by caller p: begin a transaction and run the body
\* at the snapshot.  An exception of the body rolls back and reaches the
\* handler; otherwise the transaction waits to commit.
Attempt(p, c, n) ==
    \E r \in BodyResults(p, c) :
        IF r.exc # ""
        THEN /\ tx' = [tx EXCEPT ![p] = Idle]
             /\ resp' = ErrorResponse(p, c, r.exc, r.error, n)
        ELSE /\ tx' = [tx EXCEPT ![p] =
                          [pc |-> "commit", call |-> c, attempt |-> n,
                           reads |-> r.reads, writes |-> r.writes,
                           value |-> r.value, doomed |-> FALSE]]
             /\ resp' = NoResp

\* a handler is entered: one more call, and its first attempt
DoCall(p, c, cap) ==
    /\ tx[p].pc = "idle"
    /\ ncalls < cap
    /\ ncalls' = ncalls + 1
    /\ Attempt(p, c, 1)
    /\ UNCHANGED <<devices, config, expected, created, codec>>

\* a wrapper that gives up after the first aborted commit
MayRetryNever(n) == FALSE

\* for attempt in range(transaction._max_attempts)
MayRetry(n) == n < MAX_ATTEMPTS

\* whether the store aborts the commit of p's transaction: something it
\* read was written since it began (a transaction that wrote nothing
\* read a consistent snapshot and commits)
Aborts(p) == tx[p].doomed /\ tx[p].writes # <<>>

\* whether the commit of writes ws dooms the transaction t in flight
Dooms(ws, t) ==
    /\ t.pc = "commit"
    /\ \E i \in 1..Len(ws) : \E r \in t.reads : Conflicts(r, ws[i], devices)

\* transaction._commit() of p's attempt, and what the wrapper and the
\* handler do with its outcome
Commit(p) ==
    /\ tx[p].pc = "commit"
    /\ LET t == tx[p]
           c == t.call
       IN  IF ~Aborts(p)
           THEN /\ devices' = Apply(devices, DEVICE_COLLECTION, t.writes)
                /\ config' = Apply(config, CONFIG_COLLECTION, t.writes)
                /\ tx' = [q \in Procs |->
                            IF q = p THEN Idle
                            ELSE [tx[q] EXCEPT !.doomed = @ \/ Dooms(t.writes, tx[q])]]
                /\ resp' = SuccessResponse(p, c, t.value, t.attempt)
                /\ expected' =
                      LET ids == IF c.op \in {"post", "put"}
                                 THEN NewIds(t.writes, CONFIG_COLLECTION) ELSE {}
                      IN  [k \in DOMAIN expected \cup ids |->
                              IF k \in ids THEN c.cfg ELSE expected[k]]
                /\ created' = IF c.op = "post"
                              THEN Append(created, [device |-> t.value, cfg |-> c.cfg])
                              ELSE created
                /\ UNCHANGED <<ncalls, codec>>
           ELSE IF MayRetry(t.attempt)
           THEN /\ Attempt(p, c, t.attempt + 1)
                /\ UNCHANGED <<devices, config, ncalls, expected, created, codec>>
           ELSE /\ tx' = [tx EXCEPT ![p] = Idle]
                /\ resp' = ErrorResponse(p, c, "ValueError", "FailedToCommit", t.attempt)
                /\ UNCHANGED <<devices, config, ncalls, expected, created, codec>>

\* the end without a commit of a transaction whose config document was
\* written with new_config_doc_ref.set(...), outside the transaction: the
\* roll back leaves it
AbandonKeepsConfig(p) ==
    /\ tx[p].pc = "commit"
    /\ tx' = [tx EXCEPT ![p] = Idle]
    /\ resp' = ErrorResponse(p, tx[p].call, "Exception", "Abandoned", tx[p].attempt)
    /\ config' = Apply(config, CONFIG_COLLECTION, tx[p].writes)
    /\ UNCHANGED <<devices, ncalls, expected, created, codec>>

\* the transaction of p ends without a commit: the commit fails with an
\* error of the store that is no conflict, the wrapper rolls back and
\* raises it again, and the handler answers it in its last except clause
Abandon(p) ==
    /\ tx[p].pc = "commit"
    /\ tx' = [tx EXCEPT ![p] = Idle]
    /\ resp' = ErrorResponse(p, tx[p].call, "Exception", "Abandoned", tx[p].attempt)
    /\ UNCHANGED <<devices, config, ncalls, expected, created, codec>>

(* ------------------------------------------------------------------ *)
(* The operations                                                       *)
(* ------------------------------------------------------------------ *)

PostCall(m, cfg) == [NoCall EXCEPT !.op = "post", !.model = m, !.cfg = cfg]
GetCall(d) == [NoCall EXCEPT !.op = "get", !.model = d.model, !.serial = d.serial_number]
PutCall(d, cfg) ==
    [NoCall EXCEPT !.op = "put", !.model = d.model, !.serial = d.serial_number,
                   !.cfg = cfg]
GetAddressCall(d) ==
    [NoCall EXCEPT !.op = "get_address", !.model = d.model, !.serial = d.serial_number]
PutAddressCall(d, a) ==
    [NoCall EXCEPT !.op = "put_address", !.model = d.model,
                   !.serial = d.serial_number, !.address = a]

\* what a handler makes of a request before it opens a transaction: the
\* exception raised (exc, error) or the call to run
Rejected(op, exc, error, path, body) ==
    [exc |-> exc, error |-> error,
     call |-> [NoCall EXCEPT !.op = op, !.path = path, !.body = body]]

Accepted(call, path, body) ==
    [exc |-> "", error |-> "", call |-> [call EXCEPT !.path = path, !.body = body]]

\* the Device the handlers work with, of a path that passes the two
\* checks: the model and the serial segment as it is
RequestDevice(path) == Device(ToModel(PathParts(path)[1]), PathParts(path)[2])

\* get: device = path_to_device(request.path)
GetRequest(path) ==
    IF PathError(path) # ""
    THEN Rejected("get", "ValueError", PathError(path), path, NoDocs)
    ELSE Accepted(GetCall(RequestDevice(path)), path, NoDocs)

\* put that validates the body once the device is resolved
PutRequestResolveFirst(path, body) ==
    IF PathError(path) # ""
    THEN Rejected("put", "ValueError", PathError(path), path, body)
    ELSE IF QueryDevice(devices, RequestDevice(path).model,
                        RequestDevice(path).serial_number) = {}
    THEN Rejected("put", "FirestoreError", "NoDocument", path, body)
    ELSE IF ~ConfigValid(body)
    THEN Rejected("put", "ValidationError", "InvalidBody", path, body)
    ELSE Accepted(PutCall(RequestDevice(path), ConfigValidate(body)), path, body)

\* put: device = path_to_device(request.path), then
\* new_config = Config.model_validate(request.get_json())
PutRequest(path, body) ==
    IF PathError(path) # ""
    THEN Rejected("put", "ValueError", PathError(path), path, body)
    ELSE IF ~ConfigValid(body)
    THEN Rejected("put", "ValidationError", "InvalidBody", path, body)
    ELSE Accepted(PutCall(RequestDevice(path), ConfigValidate(body)), path, body)

\* post that validates the body before it looks the model up
PostRequestBodyFirst(path, body) ==
    LET model_str == Split(path)[Len(Split(path))]
    IN  IF ~ConfigValid(body)
        THEN Rejected("post", "ValidationError", "InvalidBody", path, body)
        ELSE IF ~IsModel(model_str)
        THEN Rejected("post", "KeyError", "InvalidModel", path, body)
        ELSE Accepted(PostCall(ToModel(model_str), ConfigValidate(body)), path, body)

\* post: model = Model[request.path.split("/")[-1]], then
\* new_config_data = Config.model_validate(request.get_json())
PostRequest(path, body) ==
    LET model_str == Split(path)[Len(Split(path))]
    IN  IF ~IsModel(model_str)
        THEN Rejected("post", "KeyError", "InvalidModel", path, body)
        ELSE IF ~ConfigValid(body)
        THEN Rejected("post", "ValidationError", "InvalidBody", path, body)
        ELSE Accepted(PostCall(ToModel(model_str), ConfigValidate(body)), path, body)

\* get_address: device = path_to_device(path), path being the request
\* path without its "/address" prefix
GetAddressRequest(path) ==
    IF PathError(path) # ""
    THEN Rejected("get_address", "ValueError", PathError(path), path, NoDocs)
    ELSE Accepted(GetAddressCall(RequestDevice(path)), path, NoDocs)

\* put_address: device = path_to_device(path), then the address of the body
PutAddressRequest(path, a) ==
    IF PathError(path) # ""
    THEN Rejected("put_address", "ValueError", PathError(path), path, NoDocs)
    ELSE Accepted(PutAddressCall(RequestDevice(path), a), path, NoDocs)

\* the path of a request for a device, '/<model>/<serial>'
DevicePath(d) == <<"/">> \o Spell(d.model) \o <<"/">> \o d.serial_number

\* the requests made of what the callers submit: models, configurations,
\* identities and addresses, sent as well-formed requests, and paths and
\* bodies sent as they are; each request as its handler parses it
Requests(raw) ==
    LET paths == {DevicePath(d) : d \in raw.devices} \cup raw.paths
        post_paths == {<<"/">> \o Spell(m) : m \in raw.models} \cup raw.post_paths
        bodies == {ConfigDump(cfg) : cfg \in raw.configs} \cup raw.bodies
    IN  [cap |-> raw.cap,
         post |-> {PostRequest(path, body) : path \in post_paths, body \in bodies},
         get |-> {GetRequest(path) : path \in paths},
         put |-> {PutRequest(path, body) : path \in paths, body \in bodies},
         get_address |-> {GetAddressRequest(path) : path \in paths},
         put_address |-> {PutAddressRequest(path, a) :
                             path \in paths, a \in raw.addresses}]

\* well-formed requests only, and how many calls
Inputs(models, configs, devs, addresses, cap) ==
    Requests([models |-> models, configs |-> configs, devices |-> devs,
              addresses |-> addresses, cap |-> cap,
              paths |-> {}, post_paths |-> {}, bodies |-> {}])

\* a handler is entered with a request: it answers the exception raised
\* before db.transaction(), or runs the call
Handle(p, r, cap) ==
    IF r.exc # ""
    THEN /\ ncalls < cap
         /\ ncalls' = ncalls + 1
         /\ resp' = ErrorResponse(p, r.call, r.exc, r.error, 0)
         /\ UNCHANGED <<devices, config, tx, expected, created, codec>>
    ELSE DoCall(p, r.call, cap)

\* post(request, db)
post(p, in) ==
    /\ tx[p].pc = "idle"
    /\ \E r \in in.post : Handle(p, r, in.cap)

\* get(request, db)
get(p, in) ==
    /\ tx[p].pc = "idle"
    /\ \E r \in in.get : Handle(p, r, in.cap)

\* put(request, db)
put(p, in) ==
    /\ tx[p].pc = "idle"
    /\ \E r \in in.put : Handle(p, r, in.cap)

\* get_address(request, db)
get_address(p, in) ==
    /\ tx[p].pc = "idle"
    /\ \E r \in in.get_address : Handle(p, r, in.cap)

\* put_address(request, db)
put_address(p, in) ==
    /\ tx[p].pc = "idle"
    /\ \E r \in in.put_address : Handle(p, r, in.cap)

(* ------------------------------------------------------------------ *)
(* Specifications                                                       *)
(* ------------------------------------------------------------------ *)

\* the empty store
Init ==
    /\ devices = NoDocs
    /\ config = NoDocs
    /\ tx = [p \in Procs |-> Idle]
    /\ resp = NoResp
    /\ ncalls = 0
    /\ expected = NoDocs
    /\ created = <<>>
    /\ codec = NoCodec

MainInputs == Inputs(InputModels, Configs, InputDevices, Addresses, MaxCalls)

Next ==
    \E p \in Procs :
        \/ post(p, MainInputs)
        \/ get(p, MainInputs)
        \/ put(p, MainInputs)
        \/ get_address(p, MainInputs)
        \/ put_address(p, MainInputs)
        \/ Commit(p)

\* any interleaving of the five operations, from the empty store
Spec == Init /\ [][Next]_vars

\* Contention on one identity: creations with the same hardware
\* identifiers, and updates of the configuration and of the address of the
\* device they create first, enough of them to exhaust the attempts of
\* one call.
ContendInputs ==
    Inputs({"IchibuV1"}, {Cfg(1, 7, 1)},
           {Device("IchibuV1", BaseSerial(Cfg(1, 7, 1)))}, {"10.0.0.1"},
           MaxContendCalls)

NextContend ==
    \E p \in Procs :
        \/ post(p, ContendInputs)
        \/ put(p, ContendInputs)
        \/ put_address(p, ContendInputs)
        \/ Commit(p)

SpecContend == Init /\ [][NextContend]_vars

\* A store that was written to outside this API: device 1 whose
\* Configuration record carries a key that is no field of Config, devices
\* 2 and 3 with the same (model, serial), device 4 whose config names no
\* Configuration record, device 5 whose serial has the suffix 1 while no
\* entry has the suffix 0.
SeedDevices ==
    (1 :> DeviceDocument("IchibuV1", BaseSerial(Cfg(1, 7, 1)), 1))
    @@ (2 :> DeviceDocument("IchibuV2", BaseSerial(Cfg(1, 8, 1)), 2))
    @@ (3 :> DeviceDocument("IchibuV2", BaseSerial(Cfg(1, 8, 1)), 3))
    @@ (4 :> DeviceDocument("LibraV0", BaseSerial(Cfg(1, 7, 1)), 9))
    @@ (5 :> DeviceDocument("LibraV0", Candidate(BaseSerial(Cfg(1, 7, 1)), 1), 4))

SeedConfig ==
    (1 :> Updated(ConfigDump(Cfg(1, 7, 1)), [legacy |-> 1]))
    @@ (2 :> ConfigDump(Cfg(1, 8, 1)))
    @@ (3 :> ConfigDump(Cfg(2, 8, 1)))
    @@ (4 :> ConfigDump(Cfg(1, 7, 1)))

InitSeeded ==
    /\ devices = SeedDevices
    /\ config = SeedConfig
    /\ tx = [p \in Procs |-> Idle]
    /\ resp = NoResp
    /\ ncalls = 0
    /\ expected = [k \in DOMAIN SeedConfig |-> ConfigValidate(SeedConfig[k])]
    /\ created = <<>>
    /\ codec = NoCodec

SeededInputs ==
    Inputs({"IchibuV2"}, {Cfg(2, 7, 1), Cfg(1, 8, 1)},
           {Device(SeedDevices[d].model, SeedDevices[d].serialNumber) :
                d \in DOMAIN SeedDevices}
           \cup {Device("IchibuV1", <<"9", "9">>)},
           {"10.0.0.1"}, MaxSeededCalls)

NextSeeded ==
    \E p \in Procs :
        \/ post(p, SeededInputs)
        \/ get(p, SeededInputs)
        \/ put(p, SeededInputs)
        \/ get_address(p, SeededInputs)
        \/ put_address(p, SeededInputs)
        \/ Commit(p)

SpecSeeded == InitSeeded /\ [][NextSeeded]_vars

\* The five operations with transactions that may end without a commit.
AbandonInputs ==
    Inputs({"IchibuV1"}, {Cfg(1, 7, 1), Cfg(2, 7, 1)},
           {Device("IchibuV1", BaseSerial(Cfg(1, 7, 1))),
            Device("IchibuV1", Candidate(BaseSerial(Cfg(1, 7, 1)), 0))},
           {"10.0.0.1"}, MaxAbandonCalls)

NextAbandon ==
    \E p \in Procs :
        \/ post(p, AbandonInputs)
        \/ get(p, AbandonInputs)
        \/ put(p, AbandonInputs)
        \/ get_address(p, AbandonInputs)
        \/ put_address(p, AbandonInputs)
        \/ Commit(p)
        \/ Abandon(p)

SpecAbandon == Init /\ [][NextAbandon]_vars

\* Requests as they arrive: paths that are no identity, a creation path
\* with no model, bodies with fields missing, beside well-formed ones.
NoModel == <<"N", "o", "M", "o", "d", "e", "l">>

RequestInputs ==
    Requests([models |-> {"IchibuV1"}, configs |-> {Cfg(1, 7, 1)},
              devices |-> {Device("IchibuV1", BaseSerial(Cfg(1, 7, 1))),
                           Device("IchibuV1", <<"9", "9">>)},
              addresses |-> {"10.0.0.1"}, cap |-> MaxRequestCalls,
              paths |-> {<<"/">> \o NoModel \o <<"/", "7", "-", "1">>,
                         <<"/">> \o Spell("IchibuV1"),
                         <<"/">> \o NoModel,
                         <<"/">> \o Spell("IchibuV1") \o <<"/", "7", "/", "1">>,
                         <<"/">> \o NoModel \o <<"/", "7", "/", "1">>},
              post_paths |-> {<<"/">> \o NoModel},
              bodies |-> {[gain |-> 1],
                          [k \in DOMAIN ConfigDump(Cfg(1, 7, 1)) \ {"phidgetId"} |->
                              ConfigDump(Cfg(1, 7, 1))[k]]}])

NextRequests ==
    \E p \in Procs :
        \/ post(p, RequestInputs)
        \/ get(p, RequestInputs)
        \/ put(p, RequestInputs)
        \/ get_address(p, RequestInputs)
        \/ put_address(p, RequestInputs)
        \/ Commit(p)

SpecRequests == Init /\ [][NextRequests]_vars

\* The identity codec alone: one path token, parsed once.
\* the serials createDevice assigns to the configurations submitted, and
\* serials that are numbers
IdentitySerials ==
    {BaseSerial(c) : c \in Configs}
    \cup {Candidate(BaseSerial(c), k) : c \in Configs, k \in 0..MaxSuffix}
    \cup {<<"9", "9">>, <<"1">>}

\* first segments: the models and two tags that are no model
FirstSegments == {Spell(m) : m \in Model} \cup {NoModel, <<"7">>}

\* '/<a>/<b>'
Slashed(a, b) == <<"/">> \o a \o <<"/">> \o b

\* tokens of two segments, of one, of three and of none
IdentityPaths ==
    {Slashed(a, b) : a \in FirstSegments, b \in IdentitySerials}
    \cup {<<"/">> \o a : a \in FirstSegments}
    \cup {Slashed(a, b) \o <<"/">> \o b : a \in FirstSegments, b \in {<<"1">>, <<>>}}
    \cup {<<>>}

InitIdentity ==
    /\ devices = NoDocs
    /\ config = NoDocs
    /\ tx = [p \in Procs |-> Idle]
    /\ resp = NoResp
    /\ ncalls = 0
    /\ expected = NoDocs
    /\ created = <<>>
    /\ codec \in {[input |-> path, stage |-> "in", result |-> <<>>] :
                    path \in IdentityPaths}

\* device = path_to_device(path)
PathToDevice ==
    /\ codec.stage = "in"
    /\ codec' = [codec EXCEPT !.stage = "out", !.result = path_to_device(codec.input)]
    /\ UNCHANGED <<devices, config, tx, resp, ncalls, expected, created>>

NextIdentity == PathToDevice

SpecIdentity == InitIdentity /\ [][NextIdentity]_vars

\* The duration codec alone: one structured duration, accepted and then
\* emitted for the client.
Durations ==
    {[secs |-> sec, nanos |-> n] :
        sec \in {0, 1, 30, 59, 60, 3600, 86400},
        n \in {0, 1, 999, 1000, 100000000, 200000000, 999999999,
               1000000000, 1500000000}}

InitDuration ==
    /\ devices = NoDocs
    /\ config = NoDocs
    /\ tx = [p \in Procs |-> Idle]
    /\ resp = NoResp
    /\ ncalls = 0
    /\ expected = NoDocs
    /\ created = <<>>
    /\ codec \in {[input |-> wire, stage |-> "in", result |-> <<>>] : wire \in Durations}

\* a structured duration of a request body is accepted
AcceptDuration ==
    /\ codec.stage = "in"
    /\ codec' = [codec EXCEPT !.stage = "internal",
                              !.result = DurationFromStructured(codec.input)]
    /\ UNCHANGED <<devices, config, tx, resp, ncalls, expected, created>>

\* the duration is emitted in the response to the client
EmitDuration ==
    /\ codec.stage = "internal"
    /\ codec' = [codec EXCEPT !.stage = "out", !.result = DurationToClient(codec.result)]
    /\ UNCHANGED <<devices, config, tx, resp, ncalls, expected, created>>

NextDuration == AcceptDuration \/ EmitDuration

SpecDuration == InitDuration /\ [][NextDuration]_vars

(* ------------------------------------------------------------------ *)
(* The handler of put.py                                                *)
(* ------------------------------------------------------------------ *)

\* query_for_device(device, db) of menu.py: the documents of a stream()
\* outside any transaction, and the one document made a
\* FirestoreDeviceDocument
query_for_device(dv, device) ==
    LET documents == {d \in DOMAIN dv :
                         /\ "number" \in DOMAIN dv[d]
                         /\ dv[d].model = device.model
                         /\ dv[d].number = device.number}
    IN  IF Cardinality(documents) > 1
        THEN ParseError("FirestoreError", "MultipleDevices")
        ELSE IF documents = {}
        THEN ParseError("FirestoreError", "NoDocument")
        ELSE Parsed(dv[TheOne(documents)])

\* put of put.py up to the write: the device of the path, the document
\* query_for_device reads, the body validated, and the reference
\* to_config() gives; the write the handler goes on to make
PutPyRequest(dv, path, body) ==
    LET device == path_to_device(path)
        device_document == query_for_device(dv, device.value)
    IN  IF device.exc # ""
        THEN Rejected("put", device.exc, device.error, path, body)
        ELSE IF device_document.exc # ""
        THEN Rejected("put", device_document.exc, device_document.error, path, body)
        ELSE IF ~ConfigValid(body)
        THEN Rejected("put", "ValidationError", "InvalidBody", path, body)
        ELSE Accepted([NoCall EXCEPT !.op = "put", !.model = device.value.model,
                                     !.serial = PathParts(path)[2],
                                     !.cfg = ConfigValidate(body)],
                      path, body)

\* the store put.py works on: documents of "devices" with a number
PutPyDevices ==
    (1 :> [model |-> "IchibuV1", number |-> 7, config |-> 1])
    @@ (2 :> [model |-> "IchibuV2", number |-> 7, config |-> 2])
    @@ (3 :> [model |-> "LibraV0", number |-> 1, config |-> 3])
    @@ (4 :> [model |-> "LibraV0", number |-> 1, config |-> 4])

PutPyConfig == [k \in 1..4 |-> ConfigDump(Cfg(1, 7, 1))]

\* the requests sent to put.py: devices there are, one there is not, one
\* duplicated, a number that is no integer; bodies valid and not
PutPyPaths ==
    {<<"/">> \o Spell(m) \o <<"/">> \o n :
        m \in {"IchibuV1", "IchibuV2"}, n \in {<<"7">>}}
    \cup {<<"/">> \o Spell("LibraV0") \o <<"/", "1">>,
          <<"/">> \o Spell("IchibuV1") \o <<"/", "8">>,
          <<"/">> \o Spell("IchibuV1") \o <<"/", "7", "-", "1">>}

PutPyBodies == {ConfigDump(Cfg(2, 7, 1)), ConfigDump(Cfg(1, 8, 1)), [gain |-> 1]}

InitPutPy ==
    /\ devices = PutPyDevices
    /\ config = PutPyConfig
    /\ tx = [p \in Procs |-> Idle]
    /\ resp = NoResp
    /\ ncalls = 0
    /\ expected = [k \in DOMAIN PutPyConfig |-> ConfigValidate(PutPyConfig[k])]
    /\ created = <<>>
    /\ codec = NoCodec

\* put(request, db) of put.py, lines 21 to 31: it answers the exception
\* raised, or holds the reference it read with the write still to make
put_py(p) ==
    /\ tx[p].pc = "idle"
    /\ ncalls < MaxPutPyCalls
    /\ ncalls' = ncalls + 1
    /\ \E path \in PutPyPaths, body \in PutPyBodies :
          LET r == PutPyRequest(devices, path, body)
              config_doc_ref ==
                  query_for_device(devices, path_to_device(path).value).value.config
          IN  IF r.exc # ""
              THEN /\ resp' = ErrorResponse(p, r.call, r.exc, r.error, 0)
                   /\ tx' = tx
              ELSE /\ resp' = NoResp
                   /\ tx' = [tx EXCEPT ![p] =
                                [Idle EXCEPT !.pc = "set", !.call = r.call,
                                             !.writes =
                                                <<WriteSet(CONFIG_COLLECTION,
                                                           config_doc_ref,
                                                           ConfigDump(r.call.cfg))>>]]
    /\ UNCHANGED <<devices, config, expected, created, codec>>

\* put of put.py, lines 35 to 40: document(config_doc_ref).set(...), a
\* write of its own, and the response
put_py_set(p) ==
    /\ tx[p].pc = "set"
    /\ config' = Apply(config, CONFIG_COLLECTION, tx[p].writes)
    /\ expected' = [k \in DOMAIN expected \cup NewIds(tx[p].writes, CONFIG_COLLECTION) |->
                      IF k \in NewIds(tx[p].writes, CONFIG_COLLECTION)
                      THEN tx[p].call.cfg ELSE expected[k]]
    /\ tx' = [tx EXCEPT ![p] = Idle]
    /\ resp' = SuccessResponse(p, tx[p].call, NoDocs, 0)
    /\ UNCHANGED <<devices, ncalls, created, codec>>

NextPutPy == \E p \in Procs : put_py(p) \/ put_py_set(p)

SpecPutPy == InitPutPy /\ [][NextPutPy]_vars

(* ------------------------------------------------------------------ *)
(* Addresses written and read back                                      *)
(* ------------------------------------------------------------------ *)

\* One device created, and its address put and got by two callers; the
\* addresses put are a locator and the empty string.
AddressInputs ==
    Inputs({"IchibuV1"}, {Cfg(1, 7, 1)},
           {Device("IchibuV1", BaseSerial(Cfg(1, 7, 1)))},
           Addresses, MaxAddressCalls)

NextAddress ==
    \E p \in Procs :
        \/ post(p, AddressInputs)
        \/ get_address(p, AddressInputs)
        \/ put_address(p, AddressInputs)
        \/ Commit(p)

SpecAddress == Init /\ [][NextAddress]_vars

(* ------------------------------------------------------------------ *)
(* The probing loop of _post_transaction, one query at a time           *)
(* ------------------------------------------------------------------ *)

\* the configuration submitted, and the serials entries of the directory
\* may have: its base serial, the base serial with the suffixes
\* 0..MaxProbeSuffix, and the base serial of other hardware
ProbeConfig == Cfg(1, 7, 1)

ProbeSerials ==
    <<BaseSerial(ProbeConfig)>>
    \o [k \in 1..(MaxProbeSuffix + 1) |-> Candidate(BaseSerial(ProbeConfig), k - 1)]
    \o <<BaseSerial(Cfg(1, 8, 1))>>

\* the directory whose entries have the serials numbered by ids, of one
\* model and the other in turn
ProbeDirectory(ids) ==
    [i \in ids |->
        DeviceDocument(IF i % 2 = 0 THEN "IchibuV1" ELSE "IchibuV2",
                       ProbeSerials[i], i)]

\* the local variables of _post_transaction when the loop is reached
\* (lines 150 to 163), with the number of queries the loop has run
ProbeStart(dv, new_config) ==
    [serial_number |-> BaseSerial(new_config),
     serial_number_is_set |-> QuerySerial(dv, BaseSerial(new_config)) = {},
     index |-> 0,
     probes |-> 0]

\* the loop written as: for index in range(2)
ProbeStepCapped(dv, base, st) ==
    IF QuerySerial(dv, Candidate(base, st.index)) # {} /\ st.index < 1
    THEN [st EXCEPT !.index = @ + 1, !.probes = @ + 1]
    ELSE [st EXCEPT !.serial_number_is_set = TRUE,
                    !.serial_number = Candidate(base, st.index),
                    !.probes = @ + 1]

\* one run of the body of the while loop (lines 165 to 177)
ProbeStep(dv, base, st) ==
    IF QuerySerial(dv, Candidate(base, st.index)) # {}
    THEN [st EXCEPT !.index = @ + 1, !.probes = @ + 1]
    ELSE [st EXCEPT !.serial_number_is_set = TRUE,
                    !.serial_number = Candidate(base, st.index),
                    !.probes = @ + 1]

InitProbe ==
    /\ \E ids \in SUBSET (1..Len(ProbeSerials)) :
          /\ devices = ProbeDirectory(ids)
          /\ config = [i \in ids |-> ConfigDump(ProbeConfig)]
          /\ expected = [i \in ids |-> ProbeConfig]
    /\ tx = [p \in Procs |-> Idle]
    /\ resp = NoResp
    /\ ncalls = 0
    /\ created = <<>>
    /\ codec = [input |-> ProbeConfig, stage |-> "in", result |-> <<>>]

\* lines 150 to 163: the base serial and the query for it
ProbeBase ==
    /\ codec.stage = "in"
    /\ codec' = [codec EXCEPT !.stage = "loop",
                              !.result = ProbeStart(devices, codec.input)]
    /\ UNCHANGED <<devices, config, tx, resp, ncalls, expected, created>>

\* while not serial_number_is_set: the body once more
ProbeLoop ==
    /\ codec.stage = "loop"
    /\ ~codec.result.serial_number_is_set
    /\ codec' = [codec EXCEPT !.result =
                    ProbeStep(devices, BaseSerial(codec.input), codec.result)]
    /\ UNCHANGED <<devices, config, tx, resp, ncalls, expected, created>>

\* the loop is left, for line 181
ProbeExit ==
    /\ codec.stage = "loop"
    /\ codec.result.serial_number_is_set
    /\ codec' = [codec EXCEPT !.stage = "out"]
    /\ UNCHANGED <<devices, config, tx, resp, ncalls, expected, created>>

NextProbe == ProbeBase \/ ProbeLoop \/ ProbeExit

\* the body runs in one thread that is never suspended for good between
\* two queries: a step that can be taken is taken
SpecProbe == InitProbe /\ [][NextProbe]_vars /\ WF_vars(NextProbe)

(* ------------------------------------------------------------------ *)
(* Properties                                                           *)
(* ------------------------------------------------------------------ *)

\* the base serial as the specification writes it,
\* "{phidget_id}-{load_cell_id}"
ClaimedBase(cfg) == IntToStr(cfg.phidget_id) \o <<"-">> \o IntToStr(cfg.load_cell_id)

\* the entries of the directory with identity (m, s)
Entries(dv, m, s) == QueryDevice(dv, m, s)

\* in this step caller p ran a transaction body that now waits to commit
BodyRan(p) == tx'[p].pc = "commit" /\ tx'[p].attempt # tx[p].attempt

\* C1: at every committed state reached from the empty store by any
\* interleaving of createDevice calls (and the other operations), aborted
\* attempts included, no two Directory Entries have the same (model, serial).
C1_Uniqueness ==
    \A d, e \in DOMAIN devices :
        (devices[d].model = devices[e].model
            /\ devices[d].serialNumber = devices[e].serialNumber) => d = e

\* a creation that collided, lost a commit and was run again has been
\* committed beside the entry with the base serial, for the same model
C1_Witness ==
    /\ resp.op = "post" /\ resp.status = "CREATED" /\ resp.attempts > 1
    /\ \E d, e \in DOMAIN devices :
          /\ devices[d].model = devices[e].model
          /\ devices[d].serialNumber = BaseSerial(resp.call.cfg)
          /\ devices[e].serialNumber = Candidate(BaseSerial(resp.call.cfg), 0)
          /\ resp.value.serial_number = devices[e].serialNumber

\* a creation transaction of caller q with base serial b has probed and
\* waits to commit
PendingPost(q, b) ==
    tx[q].pc = "commit" /\ tx[q].call.op = "post" /\ BaseSerial(tx[q].call.cfg) = b

\* C2: of two creation transactions with the same base serial that have
\* both probed before either commits, the one that commits first dooms the
\* other: the other's commit is aborted by the store and changes neither
\* collection, and no committed creation carries a serial an entry has.
C2_RaceOneCommits ==
    [][/\ \A p, q \in Procs :
            (/\ p # q
             /\ PendingPost(p, BaseSerial(tx[p].call.cfg))
             /\ PendingPost(q, BaseSerial(tx[p].call.cfg))
             /\ resp'.caller = p /\ resp'.status = "CREATED")
            => /\ tx'[q].doomed
               /\ tx'[q].pc = "commit" /\ tx'[q].attempt = tx[q].attempt
       /\ \A q \in Procs :
            (tx[q].pc = "commit" /\ tx[q].call.op = "post" /\ tx[q].doomed
                /\ tx'[q] # tx[q])
            => devices' = devices /\ config' = config
       /\ (resp'.op = "post" /\ resp'.status = "CREATED")
            => QuerySerial(devices, resp'.value.serial_number) = {}
      ]_vars

\* one creation has just committed while another with the same base
\* serial, which probed before that commit, waits doomed
C2_Witness ==
    /\ resp.op = "post" /\ resp.status = "CREATED"
    /\ \E q \in Procs :
          /\ q # resp.caller
          /\ PendingPost(q, BaseSerial(resp.call.cfg))
          /\ tx[q].doomed
          /\ tx[q].value.serial_number = resp.value.serial_number

C4_WriteConflictDistinct ==
    resp.error = "FailedToCommit"
        => resp.status \notin {"NOT_FOUND", "BAD_REQUEST", "INTERNAL_SERVER_ERROR"}

\* in this step caller p entered get with an identity that has entries
GetStarted(p, c) ==
    /\ tx[p].pc = "idle"
    /\ ncalls' = ncalls + 1
    /\ c.op = "get"
    /\ \/ tx'[p].pc = "commit" /\ tx'[p].call = c
       \/ tx'[p].pc = "idle" /\ resp'.caller = p /\ resp'.call = c

\* the call that started or ended in this step, if any
StepCalls == {tx'[p].call : p \in Procs} \cup {resp'.call}

Earlier(i) ==
    {j \in 1..(i - 1) : ClaimedBase(created[j].cfg) = ClaimedBase(created[i].cfg)}

C7_SequentialNumbers ==
    (resp.op = "post" /\ resp.status = "CREATED")
    => LET mine == {d \in DOMAIN devices : devices[d].model = resp.call.model}
       IN  /\ resp.value = [model |-> resp.call.model, number |-> Cardinality(mine)]
           /\ \E d \in mine :
                 /\ DOMAIN devices[d] = {"model", "number", "config"}
                 /\ devices[d].number = Cardinality(mine)

\* C8: when a putConfiguration(identity, C) commits, the identity has one
\* entry and the Configuration record its config names is C dumped, whole:
\* no key of the record it replaces survives; a getConfiguration that runs
\* next returns C.
C8_ReplaceThenRead ==
    [][/\ (resp'.op = "put" /\ resp'.status = "OK")
          => LET ds == Entries(devices, resp'.call.model, resp'.call.serial)
             IN  /\ Cardinality(ds) = 1
                 /\ devices' = devices
                 /\ \A d \in ds :
                       /\ devices[d].config \in DOMAIN config'
                       /\ config'[devices[d].config] = ConfigDump(resp'.call.cfg)
                       /\ DOMAIN config'[devices[d].config]
                            = {Alias(f) : f \in ConfigFields}
                       /\ expected'[devices[d].config] = resp'.call.cfg
       /\ \A p \in Procs : \A c \in StepCalls :
            (/\ GetStarted(p, c)
             /\ Cardinality(Entries(devices, c.model, c.serial)) = 1
             /\ \A d \in Entries(devices, c.model, c.serial) :
                    devices[d].config \in DOMAIN config)
            => /\ tx'[p].pc = "commit"
               /\ \A d \in Entries(devices, c.model, c.serial) :
                     tx'[p].value = expected[devices[d].config]
      ]_vars

\* a getConfiguration has answered with the configuration a
\* putConfiguration gave the seeded device 1, whose record had a key that
\* is no field of Config
C8_Witness ==
    /\ resp.op = "get" /\ resp.status = "OK"
    /\ Entries(devices, resp.call.model, resp.call.serial) = {1}
    /\ "legacy" \notin DOMAIN config[1]
    /\ resp.value = expected[1]
    /\ resp.value # ConfigValidate(SeedConfig[1])

\* C9: getConfiguration and putConfiguration of an identity with no
\* Directory Entry end with the not-found failure, in the step that runs
\* the body, and leave both collections as they were: no transaction of
\* theirs waits to commit.
C9_NotFound ==
    [][/\ \A p \in Procs :
            (BodyRan(p) /\ tx'[p].call.op \in {"get", "put"})
            => Entries(devices, tx'[p].call.model, tx'[p].call.serial) # {}
       /\ (/\ resp'.op \in {"get", "put"}
           /\ Entries(devices, resp'.call.model, resp'.call.serial) = {})
          => /\ resp'.status = "NOT_FOUND"
             /\ resp'.exc = "FirestoreError" /\ resp'.error = "NoDocument"
             /\ resp'.value = NoDocs
             /\ devices' = devices /\ config' = config
             /\ tx'[resp'.caller].pc = "idle"
      ]_vars

\* a putConfiguration of an identity with no entry has failed, on a store
\* that holds other entries
C9_Witness ==
    /\ resp.op = "put" /\ resp.status = "NOT_FOUND" /\ resp.error = "NoDocument"
    /\ Entries(devices, resp.call.model, resp.call.serial) = {}
    /\ devices # NoDocs

\* C10: getConfiguration and putConfiguration of an identity that two or
\* more Directory Entries have fail: no transaction of theirs waits to
\* commit, the response carries no configuration, and both collections are
\* as they were.
C10_MultipleMatch ==
    [][/\ \A p \in Procs :
            (BodyRan(p) /\ tx'[p].call.op \in {"get", "put"})
            => Cardinality(Entries(devices, tx'[p].call.model, tx'[p].call.serial)) <= 1
       /\ (/\ resp'.op \in {"get", "put"}
           /\ Cardinality(Entries(devices, resp'.call.model, resp'.call.serial)) > 1)
          => /\ resp'.status \notin {"OK", "CREATED"}
             /\ resp'.exc = "FirestoreError" /\ resp'.error = "MultipleDevices"
             /\ resp'.value = NoDocs
             /\ devices' = devices /\ config' = config
             /\ tx'[resp'.caller].pc = "idle"
      ]_vars

\* a putConfiguration of the identity of the seeded devices 2 and 3 has
\* failed, and their Configuration records are the seeded ones
C10_Witness ==
    /\ resp.op = "put" /\ resp.error = "MultipleDevices"
    /\ Entries(devices, resp.call.model, resp.call.serial) = {2, 3}
    /\ config[2] = SeedConfig[2] /\ config[3] = SeedConfig[3]

\* C11: the failure getConfiguration reports for an integrity defect (two
\* or more entries for the identity, or an entry whose config names no
\* record) is of a kind of its own: not the not-found kind that an identity
\* with no entry gets, and not the client-error kind.
C11_IntegrityKindDistinct ==
    (resp.op = "get" /\ resp.error \in {"MultipleDevices", "ConfigNotFound"})
        => resp.status \notin {"NOT_FOUND", "BAD_REQUEST"}

After(dv, cf, ws) ==
    [devices |-> Apply(dv, DEVICE_COLLECTION, ws),
     config |-> Apply(cf, CONFIG_COLLECTION, ws)]

\* updateConfiguration(device, cfg) applied to the store st succeeds, and
\* applied again to the store it leaves succeeds and leaves the same store
PutTwiceIsOnce(st, device, cfg) ==
    LET r1 == PutBody(st.devices, st.config, device, cfg)
        s1 == After(st.devices, st.config, r1.writes)
        r2 == PutBody(s1.devices, s1.config, device, cfg)
    IN  /\ r1.exc = "" /\ r2.exc = ""
        /\ After(s1.devices, s1.config, r2.writes) = s1

\* the same of updateAddress(device, a), whichever document the query returns
PutAddressTwiceIsOnce(st, device, a) ==
    \A ds1 \in Limit1(QueryDevice(st.devices, device.model, device.serial_number)) :
        LET r1 == PutAddressBody(st.devices, device, a, ds1)
            s1 == After(st.devices, st.config, r1.writes)
        IN  /\ r1.exc = ""
            /\ \A ds2 \in Limit1(QueryDevice(s1.devices, device.model,
                                             device.serial_number)) :
                  LET r2 == PutAddressBody(s1.devices, device, a, ds2)
                  IN  /\ r2.exc = ""
                      /\ After(s1.devices, s1.config, r2.writes) = s1

\* C13: in every store reached, for every identity that resolves (one
\* entry) and every argument, updateConfiguration applied twice in
\* succession leaves the store that one application leaves, and so does
\* updateAddress; in particular, applying again the update that has just
\* committed changes nothing.
C13_Idempotence ==
    LET st == [devices |-> devices, config |-> config]
    IN  /\ \A d \in InputDevices :
              Cardinality(Entries(devices, d.model, d.serial_number)) = 1
              => /\ \A cfg \in Configs : PutTwiceIsOnce(st, d, cfg)
                 /\ \A a \in Addresses : PutAddressTwiceIsOnce(st, d, a)
        /\ (resp.op = "put" /\ resp.status = "OK")
              => LET r == PutBody(devices, config,
                                  Device(resp.call.model, resp.call.serial), resp.call.cfg)
                 IN  r.exc = "" /\ After(devices, config, r.writes) = st
        /\ (resp.op = "put_address" /\ resp.status = "OK")
              => \A ds \in Limit1(QueryDevice(devices, resp.call.model, resp.call.serial)) :
                    LET r == PutAddressBody(devices,
                                 Device(resp.call.model, resp.call.serial),
                                 resp.call.address, ds)
                    IN  r.exc = "" /\ After(devices, config, r.writes) = st

\* an updateAddress has just committed on a device whose configuration an
\* updateConfiguration replaced before
C13_Witness ==
    /\ resp.op = "put_address" /\ resp.status = "OK"
    /\ \E d \in Entries(devices, resp.call.model, resp.call.serial) :
          /\ "address" \in DOMAIN devices[d]
          /\ devices[d].address = resp.call.address
          /\ \E i \in 1..Len(created) :
                /\ created[i].device = Device(resp.call.model, resp.call.serial)
                /\ expected[devices[d].config] # created[i].cfg

\* C14 (I1): in every state of the store reached from the empty store by
\* any interleaving of the five operations, with transactions that are
\* aborted, run again or abandoned, the config of every Directory Entry
\* names a Configuration record that exists.
C14_NoDanglingReference ==
    \A d \in DOMAIN devices : devices[d].config \in DOMAIN config

\* a creation has been abandoned before its commit, beside a committed
\* one and a third that waits to commit
C14_Witness ==
    /\ resp.op = "post" /\ resp.error = "Abandoned"
    /\ devices # NoDocs
    /\ \E q \in Procs : tx[q].pc = "commit" /\ tx[q].call.op = "post"

\* the token of an identity: '/<model>/<serial>'
IdentityToken(m, serial) == <<"/">> \o Spell(m) \o <<"/">> \o serial

\* the serials createDevice can assign to the configurations submitted:
\* the base form and the suffixed forms
AssignedSerials ==
    {ClaimedBase(c) : c \in Configs}
    \cup {ClaimedBase(c) \o <<"-">> \o IntToStr(k) : c \in Configs, k \in 0..MaxSuffix}

\* C15: for every model and every serial createDevice can assign (and
\* the serials that are numbers), parsing the token '/<model>/<serial>'
\* with path_to_device succeeds and yields the model and the serial.
C15_IdentityRoundTrip ==
    \A m \in Model : \A serial \in AssignedSerials \cup {<<"9", "9">>} :
        (codec.stage = "out" /\ codec.input = IdentityToken(m, serial))
        => /\ codec.result.exc = ""
           /\ codec.result.value.model = m
           /\ IntToStr(codec.result.value.number) = serial

\* in this step a handler answered without opening a transaction: the
\* response is sent in the step the call is issued, no transaction is
\* begun, and both collections are as they were
AnsweredWithoutStore ==
    /\ ncalls' = ncalls + 1
    /\ resp'.attempts = 0
    /\ tx' = tx
    /\ devices' = devices /\ config' = config

\* the segments of the path of the request answered in this step
AnsweredParts == PathParts(resp'.call.path)

\* C16: a request whose path does not split into exactly two segments is
\* answered with the malformed-path failure whatever its first segment is;
\* one whose path has two segments, the first of which is no model, with
\* the unknown-model failure; both before any transaction is opened.
C16_ValidationOrder ==
    [][/\ (resp'.op \in {"get", "put", "get_address", "put_address"}
              /\ Len(AnsweredParts) # 2)
          => /\ resp'.exc = "ValueError" /\ resp'.error = "InvalidPathFormat"
             /\ resp'.status = "BAD_REQUEST"
             /\ AnsweredWithoutStore
       /\ (resp'.op \in {"get", "put", "get_address", "put_address"}
              /\ Len(AnsweredParts) = 2
              /\ AnsweredParts[1] \notin {Spell(m) : m \in Model})
          => /\ resp'.exc = "ValueError" /\ resp'.error = "InvalidModel"
             /\ resp'.status = "BAD_REQUEST"
             /\ AnsweredWithoutStore
       /\ \A p \in Procs :
            (BodyRan(p) /\ tx'[p].call.op # "post")
            => /\ Len(PathParts(tx'[p].call.path)) = 2
               /\ PathParts(tx'[p].call.path)[1] \in {Spell(m) : m \in Model}
      ]_vars

\* a request whose path is one segment that is no model has been answered
\* with the malformed-path failure, on a store that holds an entry
C16_Witness ==
    /\ resp.error = "InvalidPathFormat"
    /\ Len(PathParts(resp.call.path)) = 1
    /\ PathParts(resp.call.path)[1] \notin {Spell(m) : m \in Model}
    /\ devices # NoDocs

AnsweredModel == Split(resp'.call.path)[Len(Split(resp'.call.path))]

\* C18: a createDevice whose model is outside the enumeration is answered
\* with the unknown-model client error, also when its payload is invalid;
\* one with a model and a payload that misses a required field with the
\* validation client error; in both cases before any transaction is
\* opened, so that no record and no entry is created.
C18_PostRejectsBadInput ==
    [][/\ (resp'.op = "post" /\ AnsweredModel \notin {Spell(m) : m \in Model})
          => /\ resp'.exc = "KeyError" /\ resp'.error = "InvalidModel"
             /\ resp'.status = "BAD_REQUEST"
             /\ AnsweredWithoutStore
       /\ (/\ resp'.op = "post"
           /\ AnsweredModel \in {Spell(m) : m \in Model}
           /\ ~ConfigValid(resp'.call.body))
          => /\ resp'.exc = "ValidationError" /\ resp'.error = "InvalidBody"
             /\ resp'.status = "BAD_REQUEST"
             /\ AnsweredWithoutStore
       /\ \A p \in Procs :
            (BodyRan(p) /\ tx'[p].call.op = "post")
            => /\ ConfigValid(tx'[p].call.body)
               /\ Spell(tx'[p].call.model)
                     = Split(tx'[p].call.path)[Len(Split(tx'[p].call.path))]
      ]_vars

\* a createDevice with no model and a payload with fields missing has been
\* answered with the unknown-model failure, on a store that holds an entry
C18_Witness ==
    /\ resp.op = "post" /\ resp.error = "InvalidModel"
    /\ ~ConfigValid(resp.call.body)
    /\ devices # NoDocs

Suffixed(base, k) == base \o <<"-">> \o IntToStr(k)

\* serial is base-k for the least k >= 0 such that no entry of dv, of any
\* model, has the serial base-k
FirstGap(dv, base, serial) ==
    \E k \in 0..Cardinality(DOMAIN dv) :
        /\ serial = Suffixed(base, k)
        /\ QuerySerial(dv, Suffixed(base, k)) = {}
        /\ \A j \in 0..(k - 1) : QuerySerial(dv, Suffixed(base, j)) # {}

\* C20: a createDevice that runs on a snapshot in which an entry has the
\* base serial settles on base-k, k the least non-negative integer such
\* that no entry of any model has the serial base-k; the entry it commits
\* has that serial, still the first gap of the directory it is committed to.
C20_FirstGap ==
    [][/\ \A p \in Procs :
            (/\ BodyRan(p) /\ tx'[p].call.op = "post"
             /\ QuerySerial(devices, ClaimedBase(tx'[p].call.cfg)) # {})
            => FirstGap(devices, ClaimedBase(tx'[p].call.cfg),
                        tx'[p].value.serial_number)
       /\ (/\ resp'.op = "post" /\ resp'.status = "CREATED"
           /\ QuerySerial(devices, ClaimedBase(resp'.call.cfg)) # {})
          => /\ FirstGap(devices, ClaimedBase(resp'.call.cfg),
                         resp'.value.serial_number)
             /\ QuerySerial(devices', resp'.value.serial_number) # {}
      ]_vars

\* on the seeded store, where the suffix 1 is taken and the suffix 0 is
\* not, a creation has taken the suffix 0 and the next the suffix 2
C20_Witness ==
    /\ resp.op = "post" /\ resp.status = "CREATED"
    /\ resp.value.serial_number = Candidate(BaseSerial(resp.call.cfg), 2)
    /\ Len(created) = 2
    /\ created[1].device.serial_number = Candidate(BaseSerial(resp.call.cfg), 0)
    /\ QuerySerial(devices, Candidate(BaseSerial(resp.call.cfg), 1)) = {5}

\* C21: the collision probe ignores the model.  A createDevice for a model
\* whose base serial an entry of another model already has settles on a
\* suffixed serial, never the base serial; and among the entries createDevice
\* has produced from the empty store no two have the same serial, whatever
\* their models.
C21_ProbeIgnoresModel ==
    [][/\ \A p \in Procs :
            (/\ BodyRan(p) /\ tx'[p].call.op = "post"
             /\ \E d \in DOMAIN devices :
                   /\ devices[d].serialNumber = ClaimedBase(tx'[p].call.cfg)
                   /\ devices[d].model # tx'[p].call.model)
            => tx'[p].value.serial_number # ClaimedBase(tx'[p].call.cfg)
       /\ \A d, e \in DOMAIN devices' :
            devices'[d].serialNumber = devices'[e].serialNumber => d = e
      ]_vars

\* a creation for one model has been given the suffix 0 because the one
\* entry with its base serial is of the other model
C21_Witness ==
    /\ resp.op = "post" /\ resp.status = "CREATED"
    /\ resp.value.serial_number = Candidate(ClaimedBase(resp.call.cfg), 0)
    /\ \E d \in DOMAIN devices :
          /\ devices[d].serialNumber = ClaimedBase(resp.call.cfg)
          /\ devices[d].model # resp.call.model
    /\ \A d \in DOMAIN devices : devices[d].model = resp.call.model
          => devices[d].serialNumber = resp.value.serial_number

\* the one entry with identity (m, s), when its config names no record
Dangling(dv, cf, m, s) ==
    /\ Cardinality(Entries(dv, m, s)) = 1
    /\ dv[TheOne(Entries(dv, m, s))].config \notin DOMAIN cf

\* C22: a putConfiguration on an identity whose single Directory Entry has
\* a config naming no Configuration record fails as the resolver does, with
\* the failure of a missing config record, and writes nothing; no step
\* creates the record a dangling entry names.
C22_PutOnDanglingFails ==
    [][/\ (resp'.op = "put"
            /\ Dangling(devices, config, resp'.call.model, resp'.call.serial))
          => /\ resp'.status # "OK"
             /\ resp'.error = "ConfigNotFound"
             /\ devices' = devices /\ config' = config
       /\ \A d \in DOMAIN devices :
            devices[d].config \notin DOMAIN config
                => devices[d].config \notin DOMAIN config'
      ]_vars

\* C23: a getAddress or putAddress on an identity that two or more
\* Directory Entries share fails with the multiple-devices failure: it
\* returns no address and leaves the address of every entry as it was.
C23_AddressDuplicateDetection ==
    [][(/\ resp'.op \in {"get_address", "put_address"}
        /\ Cardinality(Entries(devices, resp'.call.model, resp'.call.serial)) > 1)
       => /\ resp'.error = "MultipleDevices"
          /\ resp'.value = NoDocs
          /\ devices' = devices
      ]_vars

\* the callers whose getConfiguration transaction has read and waits to
\* commit after this step
GetsInFlight ==
    {p \in Procs : tx'[p].pc = "commit" /\ tx'[p].call.op = "get"}

\* C24: putConfiguration and getConfiguration on one identity are
\* linearizable.  The record a committed putConfiguration leaves is its
\* argument, whole, and every stored record is the configuration last
\* committed to it; a getConfiguration holds, from the step it read to the
\* step it answers, one whole configuration: the one last committed when it
\* read (the configuration stored at creation or the argument of a
\* putConfiguration), which differs from the one now stored only if a write
\* was committed after it read; and that is the configuration it returns.
C24_LinearizablePutGet ==
    [][/\ (resp'.op = "put" /\ resp'.status = "OK")
          => \A d \in Entries(devices, resp'.call.model, resp'.call.serial) :
                /\ ConfigValidate(config'[devices[d].config]) = resp'.call.cfg
                /\ expected'[devices[d].config] = resp'.call.cfg
       /\ \A k \in DOMAIN config' :
            ConfigValid(config'[k]) /\ ConfigValidate(config'[k]) = expected'[k]
       /\ \A p \in GetsInFlight :
            /\ \A d \in Entries(devices', tx'[p].call.model, tx'[p].call.serial) :
                  \/ tx'[p].value = expected'[devices'[d].config]
                  \/ tx'[p].doomed
            /\ tx[p].pc = "commit" => tx'[p].value = tx[p].value
            /\ tx[p].pc = "idle" => ~tx'[p].doomed
       /\ (resp'.op = "get" /\ resp'.status = "OK")
            => /\ resp'.value = tx[resp'.caller].value
               /\ resp'.attempts = 1
      ]_vars

\* a getConfiguration that read before a putConfiguration on its identity
\* committed has answered after it, with the whole configuration stored
\* when it read and not the one stored now
C24_Witness ==
    /\ resp.op = "get" /\ resp.status = "OK"
    /\ Entries(devices, resp.call.model, resp.call.serial) = {1}
    /\ resp.value = ConfigValidate(SeedConfig[1])
    /\ expected[1] # resp.value
    /\ ConfigValidate(config[1]) = expected[1]

\* C25: every operation is one transaction.  No handler stands between a
\* read of the store and a write of its own: a call in flight is a
\* transaction that has read at its snapshot and waits to commit; and every
\* change of either collection is the commit of such a transaction, which
\* applies the writes it buffered, all at once.
C25_OneTransaction ==
    [][/\ \A p \in Procs : tx'[p].pc \in {"idle", "commit"}
       /\ (devices' # devices \/ config' # config)
          => \E p \in Procs :
                /\ tx[p].pc = "commit" /\ tx'[p].pc = "idle"
                /\ resp'.caller = p
                /\ devices' = Apply(devices, DEVICE_COLLECTION, tx[p].writes)
                /\ config' = Apply(config, CONFIG_COLLECTION, tx[p].writes)
      ]_vars

\* in this step the createDevice of caller p ended, or an attempt of it did
PostEnded(p) ==
    /\ tx[p].pc = "commit" /\ tx[p].call.op = "post"
    /\ (tx'[p].pc = "idle" \/ tx'[p].attempt # tx[p].attempt)

\* C26: creation is atomic.  The step that commits a createDevice adds one
\* Directory Entry and one Configuration record, the one the entry names,
\* and changes no other document; a step in which a createDevice fails, has
\* its commit aborted and runs again, or is abandoned before commit changes
\* neither collection, so that no Configuration record is left without its
\* entry.
C26_AtomicCreation ==
    [][/\ \A p \in Procs :
            PostEnded(p) =>
                IF resp'.caller = p /\ resp'.status = "CREATED"
                THEN \E d \in DOMAIN devices' \ DOMAIN devices :
                        /\ DOMAIN devices' = DOMAIN devices \cup {d}
                        /\ DOMAIN config' = DOMAIN config \cup {devices'[d].config}
                        /\ devices'[d].config \notin DOMAIN config
                        /\ \A e \in DOMAIN devices : devices'[e] = devices[e]
                        /\ \A k \in DOMAIN config : config'[k] = config[k]
                ELSE devices' = devices /\ config' = config
       /\ (resp'.op = "post" /\ resp'.status # "CREATED")
            => devices' = devices /\ config' = config
       /\ \A k \in DOMAIN config' : \E d \in DOMAIN devices' : devices'[d].config = k
      ]_vars

\* a createDevice that lost its first commit to another and ran again has
\* been abandoned before its second: the store holds the other's entry
\* and record and nothing of its own
C26_Witness ==
    /\ resp.op = "post" /\ resp.error = "Abandoned" /\ resp.attempts = 2
    /\ Len(created) = 1
    /\ Cardinality(DOMAIN devices) = 1
    /\ Cardinality(DOMAIN config) = 1

\* C27: ownership is exclusive and one to one.  In every state of the store
\* reached from the empty store by any interleaving of the five operations,
\* no two Directory Entries have the same config, and every Configuration
\* record is the config of exactly one Directory Entry.
C27_ExclusiveOwnership ==
    /\ \A d, e \in DOMAIN devices : devices[d].config = devices[e].config => d = e
    /\ \A k \in DOMAIN config :
          Cardinality({d \in DOMAIN devices : devices[d].config = k}) = 1

\* two devices have been created with the same hardware identifiers and a
\* putConfiguration has replaced the configuration of one of them
C27_Witness ==
    /\ resp.op = "put" /\ resp.status = "OK"
    /\ Len(created) = 2
    /\ BaseSerial(created[1].cfg) = BaseSerial(created[2].cfg)
    /\ Cardinality(DOMAIN devices) = 2
    /\ Cardinality(DOMAIN config) = 2

\* C28: a Directory Entry, once it exists, keeps its model, its serial and
\* its config through every step and is never removed; the only step that
\* adds an entry is the commit of a createDevice: putConfiguration and
\* putAddress create none.
C28_EntriesImmutable ==
    [][/\ \A d \in DOMAIN devices :
            /\ d \in DOMAIN devices'
            /\ devices'[d].model = devices[d].model
            /\ devices'[d].serialNumber = devices[d].serialNumber
            /\ devices'[d].config = devices[d].config
       /\ DOMAIN devices' # DOMAIN devices
            => resp'.op = "post" /\ resp'.status = "CREATED"
       /\ resp'.op \in {"put", "put_address"} => DOMAIN devices' = DOMAIN devices
      ]_vars

\* a putAddress has changed the address of an entry whose configuration a
\* putConfiguration had replaced before: the entry is the one created
C28_Witness ==
    /\ resp.op = "put_address" /\ resp.status = "OK"
    /\ Len(created) = 1
    /\ \E d \in DOMAIN devices :
          /\ DOMAIN devices = {d}
          /\ devices[d].model = created[1].device.model
          /\ devices[d].serialNumber = created[1].device.serial_number
          /\ devices[d].address = resp.call.address
          /\ expected[devices[d].config] # created[1].cfg

\* C29: address and configuration are written independently.  The commit of
\* a putAddress sets the address of one entry of the identity and changes
\* nothing else: every other field of it, every other entry and every
\* Configuration record stay.  The commit of a putConfiguration changes the
\* one Configuration record the entry of the identity names and nothing
\* else: every Directory Entry, address included, and every other
\* Configuration record stay.
C29_IndependentWrites ==
    [][/\ (resp'.op = "put_address" /\ resp'.status = "OK")
          => /\ config' = config
             /\ \E d \in Entries(devices, resp'.call.model, resp'.call.serial) :
                   devices' = [devices EXCEPT ![d] =
                                  Updated(devices[d], [address |-> resp'.call.address])]
       /\ (resp'.op = "put" /\ resp'.status = "OK")
          => /\ devices' = devices
             /\ \E d \in Entries(devices, resp'.call.model, resp'.call.serial) :
                   /\ DOMAIN config' = DOMAIN config \cup {devices[d].config}
                   /\ \A k \in DOMAIN config \ {devices[d].config} :
                         config'[k] = config[k]
      ]_vars

\* a putConfiguration has replaced the configuration of a device whose
\* address a putAddress had set: the address is still there
C29_Witness ==
    /\ resp.op = "put" /\ resp.status = "OK"
    /\ Len(created) = 1
    /\ \E d \in Entries(devices, resp.call.model, resp.call.serial) :
          /\ "address" \in DOMAIN devices[d]
          /\ devices[d].address # ""
          /\ ConfigValidate(config[devices[d].config]) = resp.call.cfg
          /\ resp.call.cfg # created[1].cfg

\* the operations that only read
ReadOps == {"get", "get_address"}

\* C30: reads are read-only.  A getConfiguration or getAddress buffers no
\* write, and the step in which it runs and the step in which it answers,
\* with a value or with a failure, leave the devices and config collections
\* exactly as they were.
C30_ReadsAreReadOnly ==
    [][/\ \A p \in Procs :
            (BodyRan(p) /\ tx'[p].call.op \in ReadOps)
            => /\ tx'[p].writes = <<>>
               /\ devices' = devices /\ config' = config
       /\ resp'.op \in ReadOps => devices' = devices /\ config' = config
      ]_vars

\* on the seeded store, three calls made, a getAddress has answered with
\* the address a putAddress gave the device: the config collection is the
\* seeded one and the directory differs from the seeded one in that
\* address alone
C30_Witness ==
    /\ resp.op = "get_address" /\ resp.status = "OK"
    /\ ncalls = 3
    /\ config = SeedConfig
    /\ \E d \in DOMAIN devices :
          /\ devices = [SeedDevices EXCEPT ![d] =
                           Updated(SeedDevices[d], [address |-> resp.value.address])]
          /\ devices[d].serialNumber = resp.call.serial

\* in this step caller p entered get_address with call c
GetAddressStarted(p, c) ==
    /\ tx[p].pc = "idle"
    /\ ncalls' = ncalls + 1
    /\ c.op = "get_address"
    /\ \/ tx'[p].pc = "commit" /\ tx'[p].call = c
       \/ tx'[p].pc = "idle" /\ resp'.caller = p /\ resp'.call = c

\* the step before this one committed a putAddress(a) on the identity of
\* call c, which has exactly one entry
JustPutAddress(c, a) ==
    /\ resp.op = "put_address" /\ resp.status = "OK"
    /\ resp.call.model = c.model /\ resp.call.serial = c.serial
    /\ resp.call.address = a
    /\ Cardinality(Entries(devices, c.model, c.serial)) = 1

\* in this step the getAddress of caller p read the address a and waits to
\* answer with it
ReadsAddress(p, a) ==
    /\ tx'[p].pc = "commit"
    /\ tx'[p].value = [address |-> a]
    /\ tx'[p].writes = <<>>

\* in this step the getAddress of caller p failed: no configured address
FailsNoAddress(p) ==
    /\ tx'[p].pc = "idle"
    /\ resp'.caller = p
    /\ resp'.error = "NoAddress" /\ resp'.status = "NOT_FOUND"

\* a getAddress on an entry on which no address was ever set fails with
\* the no-configured-address failure
NeverSetFails ==
    \A p \in Procs : \A c \in StepCalls :
        (/\ GetAddressStarted(p, c)
         /\ Cardinality(Entries(devices, c.model, c.serial)) = 1
         /\ \A d \in Entries(devices, c.model, c.serial) :
               "address" \notin DOMAIN devices[d])
        => FailsNoAddress(p)

\* C31 as stated: a getAddress that runs right after a successful
\* putAddress(identity, a), for any string a, the empty string included,
\* succeeds and returns a; a getAddress on an entry on which no address
\* was ever set fails with the no-configured-address failure.
C31_ReadAfterWriteAnyString ==
    [][/\ \A p \in Procs : \A c \in StepCalls : \A a \in Addresses :
            (GetAddressStarted(p, c) /\ JustPutAddress(c, a))
            => ReadsAddress(p, a)
       /\ NeverSetFails
      ]_vars

\* C31: a getAddress that runs right after a successful
\* putAddress(identity, a) on an identity with exactly one entry succeeds
\* and returns a when a is not the empty string, and fails with the
\* no-configured-address failure when a is the empty string; a getAddress
\* on an entry on which no address was ever set fails with that failure
\* too; a getAddress that read an address answers with it.
C31_ReadAfterWrite ==
    [][/\ \A p \in Procs : \A c \in StepCalls : \A a \in Addresses :
            (GetAddressStarted(p, c) /\ JustPutAddress(c, a))
            => IF a # "" THEN ReadsAddress(p, a) ELSE FailsNoAddress(p)
       /\ NeverSetFails
       /\ (resp'.op = "get_address" /\ resp'.status = "OK")
            => /\ resp'.value = tx[resp'.caller].value
               /\ resp'.value.address # ""
      ]_vars

\* a getAddress has failed, no configured address, on the one entry of
\* its identity, whose address a putAddress has set to the empty string
C31_Witness ==
    /\ resp.op = "get_address" /\ resp.error = "NoAddress"
    /\ \E d \in DOMAIN devices :
          /\ Entries(devices, resp.call.model, resp.call.serial) = {d}
          /\ "address" \in DOMAIN devices[d]
          /\ devices[d].address = ""

\* the entries of dv whose serial has the form base-j
SuffixedEntries(dv, base) ==
    {d \in DOMAIN dv :
        \E j \in 0..Cardinality(DOMAIN dv) : dv[d].serialNumber = Suffixed(base, j)}

\* the loop has run no more suffix probes than there are entries with a
\* serial of the form base-j, and one
ProbesBounded ==
    codec.stage \in {"loop", "out"}
        => codec.result.probes
              <= Cardinality(SuffixedEntries(devices, ClaimedBase(codec.input))) + 1

\* the loop is left with the base serial, no suffix probed, where no entry
\* has it, and else with the first base-k no entry has, k + 1 suffixes
\* probed; that is the serial the transaction body settles on
StopsAtFirstGap ==
    codec.stage = "out"
        => /\ IF QuerySerial(devices, ClaimedBase(codec.input)) = {}
              THEN /\ codec.result.serial_number = ClaimedBase(codec.input)
                   /\ codec.result.probes = 0
              ELSE /\ FirstGap(devices, ClaimedBase(codec.input),
                               codec.result.serial_number)
                   /\ codec.result.serial_number
                         = Suffixed(ClaimedBase(codec.input), codec.result.probes - 1)
           /\ codec.result.serial_number
                 = ChosenSerial(devices, ClaimedBase(codec.input))

\* C32: on every finite directory the suffix-probing loop of createDevice
\* terminates; it runs at most as many suffix probes as there are entries
\* whose serial has the form base-j, and one; and it stops at the first
\* candidate no entry has, however many candidates are taken: no fixed cap
\* on the iterations cuts it short.
C32_ProbingTerminates ==
    /\ []ProbesBounded
    /\ []StopsAtFirstGap
    /\ <>(codec.stage = "out")

\* the loop has ended on a directory in which the base serial and every
\* suffix up to the highest are taken: it has probed them all and one more
C32_Witness ==
    /\ codec.stage = "out"
    /\ codec.result.probes = MaxProbeSuffix + 2
    /\ codec.result.serial_number
          = Suffixed(ClaimedBase(codec.input), MaxProbeSuffix + 1)
    /\ QuerySerial(devices, codec.result.serial_number) = {}

====
